---- MODULE Spec2Model ----
(***************************************************************************)
(* Model of src/lib/tax-calculations.ts (calculateTax) and of the row      *)
(* construction of src/components/tax-results-table.tsx (TaxResultsTable). *)
(*                                                                         *)
(* Money is a JavaScript number in the source.  Here an amount of x rupees *)
(* is the integer x * Scale, i.e. amounts are counted in units of 1/Scale  *)
(* rupee.  A multiplication by a rate num/den and a division are computed  *)
(* on these integers and round towards minus infinity at that resolution;  *)
(* on the input grid below (gross salaries that are multiples of 25000,    *)
(* percentages that are multiples of 25) every intermediate value is a     *)
(* whole number of units, which ExactOnGrid checks.                        *)
(***************************************************************************)
EXTENDS Integers, Sequences, FiniteSets

VARIABLES
    args,       \* the arguments of the latest call of calculateTax
    results,    \* the TaxResults that call returned
    isMounted,  \* TaxResultsTable's useState flag
    rows        \* the rows TaxResultsTable last displayed, <<>> for null

vars == <<args, results, isMounted, rows>>

\* ---------------------------------------------------------------- bounds
\* gross salaries are 25000 * k rupees for k in -MinGrossSteps .. MaxGrossSteps
MinGrossSteps == 2
MaxGrossSteps == 102
\* basic pay percentages are 25 * j for j in 0 .. MaxPctSteps
MaxPctSteps == 4

\* units per rupee: 12 for the per-month division, 8 for 4.81% of 25% of 25000
Scale == 12 * 8

Rupees(x) == x * Scale

GrossSalaries == {Rupees(25000 * k) : k \in (0 - MinGrossSteps)..MaxGrossSteps}
Percentages == {25 * j : j \in 0..MaxPctSteps}

\* ------------------------------------------------------------ arithmetic
Max(a, b) == IF a >= b THEN a ELSE b
Min(a, b) == IF a <= b THEN a ELSE b

\* x * (num / den), rounded down to a whole unit
Mul(x, num, den) == (x \div den) * num + ((x % den) * num) \div den

\* x * (num / den) is a whole number of units
Exact(x, num, den) == ((x % den) * num) % den = 0

\* ------------------------------------------------------------- constants
STANDARD_DEDUCTION == 75000
\* rates as <<numerator, denominator>>
PF_RATE == <<12, 100>>
CESS_RATE == <<4, 100>>
GRATUITY_RATE == <<481, 10000>>

\* ---------------------------------------------------------- calculateTax
actualBasicPayPercentage(basicPayPercentage) == Max(50, basicPayPercentage)

\* mutant: the 50% floor is not applied
basicPay_noFloor(grossSalary, basicPayPercentage) ==
    Mul(grossSalary, basicPayPercentage, 100)

basicPay(grossSalary, basicPayPercentage) ==
    Mul(grossSalary, actualBasicPayPercentage(basicPayPercentage), 100)

employeePF(bp) == Mul(bp, PF_RATE[1], PF_RATE[2])

\* mutant: the employer's share is computed at 3.67%
employerPF_otherRate(bp) == Mul(bp, 367, 10000)

employerPF(bp) == Mul(bp, PF_RATE[1], PF_RATE[2])

gratuityAmount(bp, considerGratuity) ==
    IF considerGratuity THEN Mul(bp, GRATUITY_RATE[1], GRATUITY_RATE[2]) ELSE 0

\* mutant: the employer's share is never added
totalPFDeduction_employeeOnly(empPF, emrPF, employerPfIncluded) == empPF

totalPFDeduction(empPF, emrPF, employerPfIncluded) ==
    IF employerPfIncluded THEN empPF + emrPF ELSE empPF

netSalary(grossSalary, gratuity, totalPF) == grossSalary - gratuity - totalPF

\* mutant: what the comment on lines 47-49 describes, PF and gratuity subtracted
taxableIncome_asCommented(grossSalary, empPF, gratuity) ==
    Max(0, grossSalary - Rupees(STANDARD_DEDUCTION) - empPF - gratuity)

\* mutant: the result is not clamped at 0
taxableIncome_noClamp(grossSalary, empPF, gratuity) ==
    grossSalary - Rupees(STANDARD_DEDUCTION)

\* employeePF and gratuityAmount are in scope at line 50 and named by the
\* comment above it; the expression reads grossSalary only
taxableIncome(grossSalary, empPF, gratuity) ==
    Max(0, grossSalary - Rupees(STANDARD_DEDUCTION))

\* mutant: the second slab ends at 1000000 instead of 1200000
incomeTax_wrongBoundary(ti) ==
      Mul(Max(0, Min(ti, Rupees(800000)) - Rupees(400000)), 5, 100)
    + Mul(Max(0, Min(ti, Rupees(1000000)) - Rupees(800000)), 10, 100)
    + Mul(Max(0, Min(ti, Rupees(1600000)) - Rupees(1200000)), 15, 100)
    + Mul(Max(0, Min(ti, Rupees(2000000)) - Rupees(1600000)), 20, 100)
    + Mul(Max(0, Min(ti, Rupees(2400000)) - Rupees(2000000)), 25, 100)
    + Mul(Max(0, ti - Rupees(2400000)), 30, 100)

\* mutant: the last slab is missing
incomeTax_noTopSlab(ti) ==
      Mul(Max(0, Min(ti, Rupees(800000)) - Rupees(400000)), 5, 100)
    + Mul(Max(0, Min(ti, Rupees(1200000)) - Rupees(800000)), 10, 100)
    + Mul(Max(0, Min(ti, Rupees(1600000)) - Rupees(1200000)), 15, 100)
    + Mul(Max(0, Min(ti, Rupees(2000000)) - Rupees(1600000)), 20, 100)
    + Mul(Max(0, Min(ti, Rupees(2400000)) - Rupees(2000000)), 25, 100)

\* mutant: the last slab's rate is applied to the whole income above 2400000
incomeTax_cliff(ti) ==
    IF ti > Rupees(2400000)
    THEN Mul(ti, 30, 100)
    ELSE  Mul(Max(0, Min(ti, Rupees(800000)) - Rupees(400000)), 5, 100)
        + Mul(Max(0, Min(ti, Rupees(1200000)) - Rupees(800000)), 10, 100)
        + Mul(Max(0, Min(ti, Rupees(1600000)) - Rupees(1200000)), 15, 100)
        + Mul(Max(0, Min(ti, Rupees(2000000)) - Rupees(1600000)), 20, 100)
        + Mul(Max(0, Min(ti, Rupees(2400000)) - Rupees(2000000)), 25, 100)

incomeTax(ti) ==
      Mul(Max(0, Min(ti, Rupees(800000)) - Rupees(400000)), 5, 100)
    + Mul(Max(0, Min(ti, Rupees(1200000)) - Rupees(800000)), 10, 100)
    + Mul(Max(0, Min(ti, Rupees(1600000)) - Rupees(1200000)), 15, 100)
    + Mul(Max(0, Min(ti, Rupees(2000000)) - Rupees(1600000)), 20, 100)
    + Mul(Max(0, Min(ti, Rupees(2400000)) - Rupees(2000000)), 25, 100)
    + Mul(Max(0, ti - Rupees(2400000)), 30, 100)

cess(tax) == Mul(tax, CESS_RATE[1], CESS_RATE[2])

professionalTax == Rupees(12 * 200)

\* mutant: professional tax is left out of the total
totalTax_noProfessionalTax(tax, c, pt) == tax + c

totalTax(tax, c, pt) == tax + c + pt

\* mutant: gratuity is left out of the deductions
totalDeductions_pfOnly(gratuity, totalPF) == totalPF

totalDeductions(gratuity, totalPF) == gratuity + totalPF

inHandSalary(net, total) == net - total

inHandSalaryPerMonth(inHand) == inHand \div 12

calculateTax(grossSalary, basicPayPercentage, employerPfIncluded, considerGratuity) ==
    LET bp == basicPay(grossSalary, basicPayPercentage)
        epf == employeePF(bp)
        rpf == employerPF(bp)
        gr == gratuityAmount(bp, considerGratuity)
        pf == totalPFDeduction(epf, rpf, employerPfIncluded)
        net == netSalary(grossSalary, gr, pf)
        ti == taxableIncome(grossSalary, epf, gr)
        it == incomeTax(ti)
        cs == cess(it)
        tt == totalTax(it, cs, professionalTax)
        ih == inHandSalary(net, tt)
    IN  [ grossSalary |-> grossSalary,
          basicPay |-> bp,
          standardDeduction |-> Rupees(STANDARD_DEDUCTION),
          taxableIncome |-> ti,
          incomeTax |-> it,
          cess |-> cs,
          totalTax |-> tt,
          netSalary |-> net,
          employeePF |-> epf,
          employerPF |-> rpf,
          gratuityAmount |-> gr,
          professionalTax |-> professionalTax,
          totalDeductions |-> totalDeductions(gr, pf),
          inHandSalary |-> ih,
          inHandSalaryPerMonth |-> inHandSalaryPerMonth(ih) ]

\* ------------------------------------------------------- TaxResultsTable
\* a row is its label and its value; the highlight and type tags are styling
Row(label, value) == [label |-> label, value |-> value]

baseRows(r) ==
    << Row("Gross Salary", r.grossSalary),
       Row("Taxable Income (Gross Salary - Standard Deduction)", r.taxableIncome),
       Row("Basic Pay", r.basicPay) >>

pfRows(r, employerPfIncluded) ==
    IF employerPfIncluded
    THEN << Row("Employee PF Deduction (6%)", r.employeePF),
            Row("Employer PF Deduction (6%)", r.employeePF),
            Row("Total PF Deduction (12%)", r.employeePF * 2) >>
    ELSE << Row("Employee PF Deduction (6%)", r.employeePF) >>

gratuityRow(r, gratuityIncluded) ==
    IF gratuityIncluded
    THEN << Row("Gratuity Deduction (4.81%)", r.gratuityAmount) >>
    ELSE << >>

netSalaryRow(r) == << Row("Net Salary (After Deductions)", r.netSalary) >>

taxRow(r) ==
    << Row("Income Tax", r.incomeTax),
       Row("Health & Education CESS (4%)", r.cess),
       Row("Professional Tax", r.professionalTax),
       Row("Total Tax", r.totalTax) >>

finalRow(r) == << Row("In-hand Salary Per Year", r.inHandSalary) >>

\* what one run of the component displays: nothing before the mount effect
TaxResultsTable(r, gratuityIncluded, employerPfIncluded, mounted) ==
    IF ~mounted
    THEN << >>
    ELSE baseRows(r) \o pfRows(r, employerPfIncluded)
         \o gratuityRow(r, gratuityIncluded)
         \o netSalaryRow(r) \o taxRow(r) \o finalRow(r)

\* ------------------------------------------------------------ the machine
Arguments(g, p, e, c) ==
    [ grossSalary |-> g, basicPayPercentage |-> p,
      employerPfIncluded |-> e, considerGratuity |-> c ]

\* a first call with any arguments; the table has not been mounted
Init ==
    \E g \in GrossSalaries, p \in Percentages, e \in BOOLEAN, c \in BOOLEAN :
        /\ args = Arguments(g, p, e, c)
        /\ results = calculateTax(g, p, e, c)
        /\ isMounted = FALSE
        /\ rows = << >>

\* calculateTax called again; what was displayed for the old results is gone
Calculate(g, p, e, c) ==
    /\ args' = Arguments(g, p, e, c)
    /\ results' = calculateTax(g, p, e, c)
    /\ rows' = << >>
    /\ UNCHANGED isMounted

\* the next call has another gross salary and the same options
CalculateGross ==
    \E g \in GrossSalaries :
        Calculate(g, args.basicPayPercentage, args.employerPfIncluded,
                  args.considerGratuity)

\* the next call has the same gross salary and any options
CalculateOptions ==
    \E p \in Percentages, e \in BOOLEAN, c \in BOOLEAN :
        Calculate(args.grossSalary, p, e, c)

\* useEffect(() => setIsMounted(true), [])
Mount ==
    /\ ~isMounted
    /\ isMounted' = TRUE
    /\ UNCHANGED <<args, results, rows>>

\* the component runs with the current results and any two flags
Render ==
    \E gratuityIncluded \in BOOLEAN, employerPfIncluded \in BOOLEAN :
        /\ rows' = TaxResultsTable(results, gratuityIncluded, employerPfIncluded,
                                   isMounted)
        /\ UNCHANGED <<args, results, isMounted>>

\* successive calls of the calculator
Next == CalculateGross \/ CalculateOptions

Spec == Init /\ [][Next]_vars

\* the table over the results of calls that vary the options
NextTable == CalculateOptions \/ Mount \/ Render

SpecTable == Init /\ [][NextTable]_vars

\* ------------------------------------------------------------- sanity
\* every product and quotient of the latest call is a whole number of units,
\* so the fixed-point results are the exact real-number results
ExactOnGrid ==
    LET g == args.grossSalary
        bp == results.basicPay
        ti == results.taxableIncome
    IN  /\ Exact(g, actualBasicPayPercentage(args.basicPayPercentage), 100)
        /\ Exact(bp, PF_RATE[1], PF_RATE[2])
        /\ Exact(bp, GRATUITY_RATE[1], GRATUITY_RATE[2])
        /\ Exact(ti, 5, 100)
        /\ Exact(results.incomeTax, CESS_RATE[1], CESS_RATE[2])
        /\ results.inHandSalary % 12 = 0

\* ---------------------------------------------------------------- claims
\* the schedule as the specification tabulates it: lower, upper, rate in percent
\* (the last bracket has no upper bound)
Brackets ==
    << <<400000, 800000, 5>>, <<800000, 1200000, 10>>, <<1200000, 1600000, 15>>,
       <<1600000, 2000000, 20>>, <<2000000, 2400000, 25>> >>

BracketSum(ti) ==
    LET part(i) ==
            LET over == Max(0, Min(ti, Rupees(Brackets[i][2])) - Rupees(Brackets[i][1]))
            IN  (over * Brackets[i][3]) \div 100
        top == (Max(0, ti - Rupees(2400000)) * 30) \div 100
    IN  part(1) + part(2) + part(3) + part(4) + part(5) + top

\* C1: for taxableIncome >= 0 incomeTax is the sum of the six bracket
\* contributions; it is 0 up to 400000, 20000 at 800000 and 60000 at 1200000;
\* from one call to the next it never falls when taxableIncome rises, and it
\* rises by at most 30% of the rise of taxableIncome (no jump at a boundary).
C1_State ==
    LET ti == results.taxableIncome
        it == results.incomeTax
    IN  ti >= 0 =>
            /\ it = BracketSum(ti)
            /\ (ti <= Rupees(400000) => it = 0)
            /\ (ti = Rupees(800000) => it = Rupees(20000))
            /\ (ti = Rupees(1200000) => it = Rupees(60000))

C1_Step ==
    LET d == results'.taxableIncome - results.taxableIncome
    IN  (results.taxableIncome >= 0 /\ d >= 0) =>
            /\ results'.incomeTax >= results.incomeTax
            /\ (results'.incomeTax - results.incomeTax) * 10 <= d * 3

C1_BracketSum == [](C1_State) /\ [][C1_Step]_vars

C1_Witness ==
    /\ results.taxableIncome = Rupees(1200000)
    /\ results.incomeTax = Rupees(60000)

\* C2: for grossSalary >= 0 and any options, taxableIncome is
\* max(0, grossSalary - 75000), standardDeduction is 75000, taxableIncome is
\* not negative, and a call with a gross salary at least as large returns a
\* taxableIncome at least as large.
C2_State ==
    args.grossSalary >= 0 =>
        /\ results.standardDeduction = Rupees(75000)
        /\ results.taxableIncome >= 0
        /\ IF args.grossSalary >= Rupees(75000)
           THEN results.taxableIncome = args.grossSalary - Rupees(75000)
           ELSE results.taxableIncome = 0

C2_Step ==
    (args.grossSalary >= 0 /\ args'.grossSalary >= args.grossSalary) =>
        results'.taxableIncome >= results.taxableIncome

C3_NetSalary ==
    LET bp == results.basicPay
        gratuity == IF args.considerGratuity THEN Mul(bp, 481, 10000) ELSE 0
        pf == IF args.employerPfIncluded THEN Mul(bp, 24, 100) ELSE Mul(bp, 12, 100)
        example == args.grossSalary = Rupees(1200000) /\ args.basicPayPercentage = 50
    IN  /\ results.gratuityAmount = gratuity
        /\ results.netSalary = args.grossSalary - gratuity - pf
        /\ (example /\ ~args.employerPfIncluded /\ ~args.considerGratuity
                => results.netSalary = Rupees(1128000))
        /\ (example /\ args.employerPfIncluded /\ ~args.considerGratuity
                => results.netSalary = Rupees(1056000))
        /\ (example /\ ~args.employerPfIncluded /\ args.considerGratuity
                => results.netSalary = Rupees(1099140))

C3_Witness ==
    /\ args.grossSalary = Rupees(1200000) /\ args.basicPayPercentage = 50
    /\ ~args.employerPfIncluded /\ args.considerGratuity
    /\ results.gratuityAmount = Rupees(28860)

\* C4: two calls with the same grossSalary return the same taxableIncome,
\* incomeTax, cess, professionalTax and totalTax, whatever the options are.
TaxFields(r) ==
    <<r.taxableIncome, r.incomeTax, r.cess, r.professionalTax, r.totalTax>>

PercentOfGross(percent) ==
    Rupees(((args.grossSalary \div Scale) * percent) \div 100)

C6_TotalTax ==
    /\ results.professionalTax = Rupees(2400)
    /\ results.cess * 100 = results.incomeTax * 4
    /\ results.totalTax = results.incomeTax + results.cess + Rupees(2400)
    /\ results.totalTax >= Rupees(2400)
    /\ (results.totalTax = Rupees(2400) <=> results.incomeTax = 0)

C6_Witness ==
    /\ args.grossSalary = Rupees(300000)
    /\ results.incomeTax = 0
    /\ results.totalTax = Rupees(2400)

\* C7 as stated: of two calls, the one with the larger taxableIncome has the
\* strictly larger incomeTax.
C7_Original ==
    [][results.taxableIncome < results'.taxableIncome
         => results.incomeTax < results'.incomeTax]_vars

\* C7 amended: of two calls, the one with the larger taxableIncome has an
\* incomeTax at least as large, and a strictly larger one when its
\* taxableIncome is above 400000.
C7_IncreasingAbove400000 ==
    [][results.taxableIncome < results'.taxableIncome
         => /\ results.incomeTax <= results'.incomeTax
            /\ (results'.taxableIncome > Rupees(400000)
                  => results.incomeTax < results'.incomeTax)]_vars

C7_Witness ==
    /\ results.taxableIncome > 0
    /\ results.taxableIncome < Rupees(400000)
    /\ results.incomeTax = 0

\* C8: employeePF and employerPF are equal, each 12% of basicPay, whatever
\* employerPfIncluded is; a displayed "Employer PF Deduction" row shows
\* employerPF and a displayed "Total PF Deduction" row shows
\* employeePF + employerPF.
RowValues(label) ==
    {rows[i].value : i \in {j \in 1..Len(rows) : rows[j].label = label}}

C8_EmployerPFEqual ==
    /\ results.employeePF = results.employerPF
    /\ results.employeePF = Mul(results.basicPay, 12, 100)
    /\ \A v \in RowValues("Employer PF Deduction (6%)") : v = results.employerPF
    /\ \A v \in RowValues("Total PF Deduction (12%)") :
           v = results.employeePF + results.employerPF

C8_Witness ==
    /\ ~args.employerPfIncluded
    /\ results.employerPF > 0
    /\ RowValues("Employer PF Deduction (6%)") = {results.employerPF}
    /\ RowValues("Total PF Deduction (12%)") = {results.employerPF * 2}

\* C9: grossSalary = inHandSalary + totalTax + totalDeductions, where
\* totalDeductions = gratuityAmount + totalPFDeduction = grossSalary - netSalary,
\* inHandSalary = netSalary - totalTax and inHandSalaryPerMonth * 12 =
\* inHandSalary, for the four combinations of the flags.
C9_Accounting ==
    LET pf == IF args.employerPfIncluded
              THEN results.employeePF + results.employerPF
              ELSE results.employeePF
    IN  /\ results.grossSalary = args.grossSalary
        /\ results.grossSalary
             = results.inHandSalary + results.totalTax + results.totalDeductions
        /\ results.totalDeductions = results.gratuityAmount + pf
        /\ results.totalDeductions = results.grossSalary - results.netSalary
        /\ results.inHandSalary = results.netSalary - results.totalTax
        /\ results.inHandSalaryPerMonth * 12 = results.inHandSalary

C9_Witness ==
    /\ args.grossSalary = Rupees(1200000) /\ args.basicPayPercentage = 50
    /\ ~args.employerPfIncluded /\ ~args.considerGratuity
    /\ results.inHandSalary = Rupees(1071000)
    /\ results.inHandSalaryPerMonth = Rupees(89250)

\* C10: with the same options and basicPayPercentage <= 100, of two calls
\* with gross salaries 0 <= g1 < g2 the second has the strictly larger
\* inHandSalary.
SameOptions ==
    /\ args'.basicPayPercentage = args.basicPayPercentage
    /\ args'.employerPfIncluded = args.employerPfIncluded
    /\ args'.considerGratuity = args.considerGratuity

C10_NoPayCliff ==
    [][(/\ SameOptions
        /\ args.basicPayPercentage <= 100
        /\ 0 <= args.grossSalary
        /\ args.grossSalary < args'.grossSalary)
         => results.inHandSalary < results'.inHandSalary]_vars

C10_Witness ==
    /\ args.basicPayPercentage = 100
    /\ args.employerPfIncluded /\ args.considerGratuity
    /\ results.taxableIncome > Rupees(2400000)
    /\ results.inHandSalary > 0

====
